---- MODULE Spec2Model ----
(***************************************************************************)
(* The generator-based event sequencer of nypdbot (src/nypdbot/mta.py):    *)
(* Mta (add, tick, loop), ScheduledEvent, the TimePoint classes Time and   *)
(* Beat, driven through the clock and sleep hooks of the test harness      *)
(* UntimedMta (src/nypdbot/mta_test.py).                                   *)
(*                                                                         *)
(* Numbers.  Milliseconds and beat counts are fixed-point numbers: the      *)
(* integer n stands for n / Fixed (Fixed units are 1 ms, resp. 1 beat).    *)
(* With tempos 60 and 120 every division of the code is exact on the       *)
(* values reached (invariant ExactArithmetic).  The clock readings and     *)
(* delays are Python floats wherever a delay is one: the result of every   *)
(* sum, difference and conversion is rounded to a significand of MantBits  *)
(* bits, to nearest and ties to even as Python's of 53 bits is (Float).    *)
(***************************************************************************)
EXTENDS Integers, Sequences, FiniteSets, TLC

VARIABLES
    scn,        \* which set of generators (tasks) this run schedules
    bpm,        \* Mta.bpm
    scheduler,  \* Mta.scheduler: the heapq list of ScheduledEvent
    tm,         \* Mta.tm: None, or the clock reading of the last tick
    objs,       \* the TimePoint objects, by identity
    slept,      \* UntimedMta.slept: the clock (_now)
    pos,        \* per generator: index of the last executed op (0: unstarted)
    added,      \* generators passed to add (by the driver or by a task)
    output,     \* MtaTest.output: the effects, in order
    pc,         \* where the driver is: idle, in tick's while loop, in loop
    inLoop,     \* TRUE while Mta.loop is running
    result,     \* the value returned by the last tick
    fired,      \* the resumptions of the current (or last) tick, in order
    spawned,    \* generators added by tasks during the current (or last) tick
    due,        \* per generator: clock reading its pending Time delay ends at
    order,      \* the generators with a pending event, in insertion order
    manual,     \* FALSE while the run is add, ..., add, loop and nothing else
    pre,        \* the last driver operation, with its pre-state
    pd,         \* pdctl: the Pd object graph of one canvas and what was sent
    gen,        \* a measure generator (_fill_time) under iteration
    conv        \* a TimePoint, a tempo and the result of to_ms

\* The state of the scheduler and its driver
mtaVars == <<scn, bpm, scheduler, tm, objs, slept, pos, added, output, pc,
             inLoop, result, fired, spawned, due, order, manual, pre>>

vars == <<mtaVars, pd, gen, conv>>

----------------------------------------------------------------------------
(* Fixed point and option values *)

Fixed == 1000 * 4
Ms(n) == n * Fixed
MilliBeat(n) == n * (Fixed \div 1000)

None == << >>
Some(v) == <<v>>
Val(o) == o[1]

\* The driver's own sleeps stop at a clock reading of MaxClock ms, or at the
\* multiple of it a scenario with longer delays names as its horizon.
MaxClock == 3

Tempos == {60, 120}

\* The significand of the model's floats, in bits
MantBits == 18

\* The spacing of the floats around a >= 0
RECURSIVE Ulp(_, _)
Ulp(a, u) == IF a < u * 2^MantBits THEN u ELSE Ulp(a, 2 * u)

\* The float an arithmetic result x is rounded to
Float(x) ==
    LET a == IF x < 0 THEN -x ELSE x
        u == Ulp(a, 1)
        q == a \div u
        r == a % u
        m == IF 2 * r > u \/ (2 * r = u /\ q % 2 = 1) THEN (q + 1) * u ELSE q * u
    IN  IF x < 0 THEN -m ELSE m

----------------------------------------------------------------------------
(* TimePoint, Time, Beat *)

Time(ms) == [kind |-> "Time", v |-> ms]
Beat(count) == [kind |-> "Beat", v |-> count]

\* A conversion that leaves the tempo out
beats_to_msNoTempo(b, beats) == Float(beats * 1000)

beats_to_ms(b, beats) == Float((beats * 1000 * 60) \div b)

ms_to_beats(b, ms) == Float((ms * b) \div (1000 * 60))

to_ms(tp, b) ==
    IF tp.kind = "Beat" THEN beats_to_ms(b, tp.v) ELSE tp.v

\* An elapse that stops at zero
elapseClamped(tp, b, ms) ==
    LET v == IF tp.kind = "Beat"
             THEN Float(tp.v - ms_to_beats(b, ms))
             ELSE Float(tp.v - ms)
    IN  [tp EXCEPT !.v = IF v < 0 THEN 0 ELSE v]

\* TimePoint.elapse of Beat and of Time
elapse(tp, b, ms) ==
    IF tp.kind = "Beat"
    THEN [tp EXCEPT !.v = Float(tp.v - ms_to_beats(b, ms))]
    ELSE [tp EXCEPT !.v = Float(tp.v - ms)]

----------------------------------------------------------------------------
(* The generators under test.  A generator is a sequence of ops; a yield   *)
(* suspends it.  Yield(tp) constructs a new TimePoint at the yield,        *)
(* YieldVar(k) yields the object held in the k-th variable (delay1, ...):  *)
(* the same object every time.                                             *)

Out(s) == [op |-> "out", s |-> s]
Yield(tp) == [op |-> "yield", tp |-> tp]
YieldVar(k) == [op |-> "yieldvar", var |-> k]
AddOp(t) == [op |-> "add", t |-> t]
Raise == [op |-> "raise"]
Restart == [op |-> "restart"]

\* MtaTest.go
go == <<Out("a"), Out("b"), Yield(Time(Ms(1))), Out("c"), Out("d")>>

\* MtaTest.testReuseEvents: delay1 is variable 1, delay2 is variable 2
go1 == <<Out("a"), YieldVar(1), Out("b"), YieldVar(1), Out("c")>>
go2 == <<Out("A"), YieldVar(1), Out("B"), YieldVar(2), Out("C")>>

\* MtaTest.spawn (the scheduler.add(self.spawn2()) is AddOp(2)), spawn2
spawn == <<Out("a"), Out("b"), AddOp(2), Yield(Time(Ms(1))), Out("c"), Out("d")>>
spawn2 == <<Out("aa"), Out("bb"), Yield(Time(Ms(1))), Out("cc"), Out("dd")>>

\* A generator with one delay between two effects
Once(s1, tp, s2) == <<Out(s1), Yield(tp), Out(s2)>>
OnceVar(s1, k, s2) == <<Out(s1), YieldVar(k), Out(s2)>>

\* A forever that runs its shard once
foreverOnce(shard) == shard

\* forever(shard): when shard() is exhausted a new shard() is started
forever(shard) == Append(shard, Restart)

\* The variables delay1, delay2 of a scenario that uses none
NoVars == <<Time(0), Time(0)>>

\* The number of variables holding a TimePoint
NV == Len(NoVars)

Scenarios == <<
    \* 1: testTick_basic / testLoop_basic
    [progs |-> <<go>>, roots |-> {1}, inOrder |-> FALSE,
     vars |-> NoVars, sleeps |-> {1, 10}, tempos |-> {60}, horizon |-> 4 * MaxClock,
     endless |-> FALSE],
    \* 2: testReuseEvents
    [progs |-> <<go1, go2>>, roots |-> {1, 2}, inOrder |-> FALSE,
     vars |-> <<Time(Ms(10)), Time(Ms(1))>>, sleeps |-> {10}, tempos |-> {60},
     horizon |-> 7 * MaxClock,
     endless |-> FALSE],
    \* 3: testSpawning
    [progs |-> <<spawn, spawn2>>, roots |-> {1}, inOrder |-> FALSE,
     vars |-> NoVars, sleeps |-> {1}, tempos |-> {60}, horizon |-> MaxClock,
     endless |-> FALSE],
    \* 4: delays of 10 ms and 1 ms
    [progs |-> <<Once("a", Time(Ms(10)), "b"), Once("A", Time(Ms(1)), "B")>>,
     roots |-> {1, 2}, inOrder |-> FALSE,
     vars |-> NoVars, sleeps |-> {5, 10}, tempos |-> {60}, horizon |-> 4 * MaxClock,
     endless |-> FALSE],
    \* 5: four generators with equal delays
    [progs |-> <<Once("a1", Time(Ms(1)), "b1"), Once("a2", Time(Ms(1)), "b2"),
                 Once("a3", Time(Ms(1)), "b3"), Once("a4", Time(Ms(1)), "b4")>>,
     roots |-> {1, 2, 3, 4}, inOrder |-> TRUE,
     vars |-> NoVars, sleeps |-> {1}, tempos |-> {60}, horizon |-> MaxClock,
     endless |-> FALSE],
    \* 6: a Beat delay and a Time delay under tempo changes
    [progs |-> <<Once("a", Beat(MilliBeat(4)), "b"), Once("A", Time(Ms(3)), "B")>>,
     roots |-> {1, 2}, inOrder |-> FALSE,
     vars |-> NoVars, sleeps |-> {1, 3}, tempos |-> {60, 120}, horizon |-> MaxClock,
     endless |-> FALSE],
    \* 7: two generators yield the same Time object; a task spawns
    [progs |-> <<Once("a1", Time(Ms(2)), "b1"), OnceVar("a2", 1, "b2"),
                 OnceVar("a3", 1, "b3"), Once("a4", Time(Ms(3)), "b4"),
                 <<AddOp(6), Out("a5")>>, <<Out("a6")>> >>,
     roots |-> {1, 2, 3, 4, 5}, inOrder |-> TRUE,
     vars |-> <<Time(Ms(2)), Time(0)>>, sleeps |-> {1}, tempos |-> {60}, horizon |-> MaxClock,
     endless |-> FALSE],
    \* 8: a delay of one unit, then one the clock cannot add a unit to
    [progs |-> <<<<Out("a"), Yield(Time(1)), Out("b"), Yield(Time(2^MantBits)),
                   Out("c")>> >>,
     roots |-> {1}, inOrder |-> FALSE,
     vars |-> NoVars, sleeps |-> {}, tempos |-> {60}, horizon |-> MaxClock,
     endless |-> FALSE],
    \* 9: a generator raises an exception while another one is pending
    [progs |-> <<<<Out("a"), Yield(Time(Ms(1))), Out("b"), Raise>>,
                 <<Out("A"), Yield(Time(Ms(1))), Out("B"), Yield(Time(Ms(1))),
                   Out("C")>> >>,
     roots |-> {1, 2}, inOrder |-> FALSE,
     vars |-> NoVars, sleeps |-> {1}, tempos |-> {60}, horizon |-> MaxClock,
     endless |-> FALSE],
    \* 10: forever around a generator that yields two delays of a millibeat
    [progs |-> <<forever(<<Out("x"), Yield(Beat(MilliBeat(1))),
                           Out("y"), Yield(Beat(MilliBeat(1)))>>)>>,
     roots |-> {1}, inOrder |-> FALSE,
     vars |-> NoVars, sleeps |-> {1}, tempos |-> {60}, horizon |-> MaxClock,
     endless |-> TRUE],
    \* 11: two generators yield the same Time object; a task yields Time(0)
    [progs |-> <<Once("a1", Time(Ms(2)), "b1"), OnceVar("a2", 1, "b2"),
                 OnceVar("a3", 1, "b3"), Once("a4", Time(Ms(3)), "b4"),
                 Once("a5", Time(0), "b5")>>,
     roots |-> {1, 2, 3, 4, 5}, inOrder |-> TRUE,
     vars |-> <<Time(Ms(2)), Time(0)>>, sleeps |-> {1}, tempos |-> {60}, horizon |-> MaxClock,
     endless |-> FALSE],
    \* 12: a long delay, then one that the clock cannot add exactly
    [progs |-> <<<<Out("a"), Yield(Time(2^MantBits)), Out("b"), Yield(Time(3)),
                   Out("c")>> >>,
     roots |-> {1}, inOrder |-> FALSE,
     vars |-> NoVars, sleeps |-> {}, tempos |-> {60}, horizon |-> MaxClock,
     endless |-> FALSE],
    \* 13: forever around a generator that yields Time(0), and a later task
    [progs |-> <<forever(<<Out("x"), Yield(Time(0))>>),
                 Once("a", Time(Ms(1)), "b")>>,
     roots |-> {1, 2}, inOrder |-> FALSE,
     vars |-> NoVars, sleeps |-> {1}, tempos |-> {60}, horizon |-> MaxClock,
     endless |-> TRUE] >>

Sc == Scenarios[scn]

\* The scenarios with a generator that never ends and yields no positive
\* delay: a tick that resumes it does not come to an end, and the model
\* follows it for MaxSpins resumptions
MaxSpins == 4

Spins(n) ==
    \E t \in 1 .. Len(Scenarios[n].progs) :
       LET prog == Scenarios[n].progs[t]
       IN  /\ prog[Len(prog)].op = "restart"
           /\ \A k \in 1 .. Len(prog) : prog[k].op = "yield" => prog[k].tp.v <= 0

\* The number of generators of the largest scenario
NT == CHOOSE n \in {Len(Scenarios[i].progs) : i \in 1 .. Len(Scenarios)} :
         \A i \in 1 .. Len(Scenarios) : Len(Scenarios[i].progs) <= n

Tasks == 1 .. NT
Prog(t) == IF t <= Len(Sc.progs) THEN Sc.progs[t] ELSE << >>
\* identity of the TimePoint last constructed for generator t
OwnObj(t) == NV + t

----------------------------------------------------------------------------
(* ScheduledEvent and the heap (heapq's heappush / heappop)                *)

ScheduledEvent(data, b, delay) == [data |-> data, bpm |-> b, delay |-> delay]

\* ScheduledEvent.__lt__; `not other.delay` is never true: a TimePoint
\* defines neither __bool__ nor __len__, so every instance is truthy.
Lt(self, other, o) ==
    to_ms(o[self.delay], self.bpm) < to_ms(o[other.delay], self.bpm)

RECURSIVE siftdown(_, _, _, _, _)
siftdown(heap, startpos, p, newitem, o) ==
    IF p > startpos /\ Lt(newitem, heap[((p - 1) \div 2) + 1], o)
    THEN siftdown([heap EXCEPT ![p + 1] = heap[((p - 1) \div 2) + 1]],
                  startpos, (p - 1) \div 2, newitem, o)
    ELSE [heap EXCEPT ![p + 1] = newitem]

RECURSIVE siftup(_, _, _, _)
siftup(heap, p, newitem, o) ==
    LET endpos == Len(heap)
        childpos == 2 * p + 1
        rightpos == childpos + 1
        c == IF rightpos < endpos
                /\ ~Lt(heap[childpos + 1], heap[rightpos + 1], o)
             THEN rightpos ELSE childpos
    IN  IF childpos < endpos
        THEN siftup([heap EXCEPT ![p + 1] = heap[c + 1]], c, newitem, o)
        ELSE siftdown([heap EXCEPT ![p + 1] = newitem], 0, p, newitem, o)

heappush(heap, item, o) ==
    siftdown(Append(heap, item), 0, Len(heap), item, o)

heappop(heap, o) ==
    LET lastelt == heap[Len(heap)]
        rest == SubSeq(heap, 1, Len(heap) - 1)
    IN  IF rest # << >>
        THEN [item |-> rest[1], heap |-> siftup(rest, 0, lastelt, o)]
        ELSE [item |-> lastelt, heap |-> << >>]

----------------------------------------------------------------------------
(* Mta *)

\* An _enqueue that pushes the event twice
enqueueTwice(m, ev, delay) ==
    LET e == ScheduledEvent(ev, m.bpm, delay)
    IN  [m EXCEPT !.scheduler = heappush(heappush(m.scheduler, e, m.objs),
                                         e, m.objs),
                  !.order = Append(m.order, ev)]

\* Mta._enqueue, on the part of the state a running generator can change:
\* m = [bpm, scheduler, objs, pos, added, output, spawned, order, exc];
\* exc is TRUE when an exception is propagating out of a generator.
enqueue(m, ev, delay) ==
    [m EXCEPT !.scheduler =
                 heappush(m.scheduler, ScheduledEvent(ev, m.bpm, delay), m.objs),
              !.order = Append(m.order, ev)]

\* Mta.add: the Time(0) is a new object
add(m, f) ==
    LET m1 == [m EXCEPT !.objs[OwnObj(f)] = Time(0),
                        !.added = Append(m.added, f)]
    IN  enqueue(m1, f, OwnObj(f))

\* next(event.data, None): runs generator t up to its next yield; the result
\* is the new state and the yielded TimePoint (its identity), or None when
\* the generator is exhausted.  An exception other than StopIteration ends
\* the generator and is not turned into the default.
RECURSIVE next(_, _)
next(m, t) ==
    IF m.pos[t] >= Len(Prog(t))
    THEN [m |-> [m EXCEPT !.pos[t] = Len(Prog(t)) + 1], yielded |-> None]
    ELSE
      LET i == m.pos[t] + 1
          op == Prog(t)[i]
          m1 == [m EXCEPT !.pos[t] = i]
      IN  CASE op.op = "out" ->
                 next([m1 EXCEPT !.output = Append(m.output, op.s)], t)
            [] op.op = "add" ->
                 next(add([m1 EXCEPT !.spawned = m.spawned \cup {op.t}], op.t), t)
            [] op.op = "restart" ->
                 next([m EXCEPT !.pos[t] = 0], t)
            [] op.op = "raise" ->
                 [m |-> [m EXCEPT !.pos[t] = Len(Prog(t)) + 1, !.exc = TRUE],
                  yielded |-> None]
            [] op.op = "yield" ->
                 [m |-> [m1 EXCEPT !.objs[OwnObj(t)] = op.tp],
                  yielded |-> Some(OwnObj(t))]
            [] op.op = "yieldvar" ->
                 [m |-> m1, yielded |-> Some(op.var)]

\* A _fire_event that takes the lateness of the popped event off the delay
\* the generator yields next
fire_eventCompensates(m, event) ==
    LET late == to_ms(m.objs[event.delay], m.bpm)
        r == next(m, event.data)
    IN  IF r.yielded # None
        THEN enqueue([r.m EXCEPT !.objs[Val(r.yielded)] =
                                    elapse(@, m.bpm, -late)],
                     event.data, Val(r.yielded))
        ELSE r.m

\* A _fire_event that schedules a generator again when it raised
fire_eventRequeues(m, event) ==
    LET r == next(m, event.data)
    IN  IF r.yielded # None
        THEN enqueue(r.m, event.data, Val(r.yielded))
        ELSE IF r.m.exc THEN add(r.m, event.data) ELSE r.m

\* Mta._fire_event.  `if next_delay:` holds for every TimePoint (see Lt); an
\* exception leaves before the `if`.
fire_event(m, event) ==
    LET r == next(m, event.data)
    IN  IF r.yielded # None
        THEN enqueue(r.m, event.data, Val(r.yielded))
        ELSE r.m

\* An elapse pass that elapses every object once, however many events
\* refer to it
ElapseEventsOncePerObject(sched, i, o, b, ms) ==
    [id \in DOMAIN o |->
        IF \E k \in 1 .. Len(sched) : sched[k].delay = id
        THEN elapse(o[id], b, ms)
        ELSE o[id]]

\* The elapse pass of tick: one elapse call per event, so an object that
\* several events refer to is decremented once per event.
RECURSIVE ElapseEvents(_, _, _, _, _)
ElapseEvents(sched, i, o, b, ms) ==
    IF i > Len(sched)
    THEN o
    ELSE ElapseEvents(sched, i + 1,
                      [o EXCEPT ![sched[i].delay] = elapse(@, b, ms)], b, ms)

\* A while condition written with < instead of <=
ReadyStrict(sched, o, b) ==
    sched # << >> /\ to_ms(o[sched[1].delay], b) < 0

\* The condition of tick's while loop
Ready(sched, o, b) ==
    sched # << >> /\ to_ms(o[sched[1].delay], b) <= 0

\* The slack of the fell-behind warning, in ms
SlackMs == 10

\* A warning given from a delay of -SlackMs on
FellBehindAtSlack(delay_ms) == delay_ms <= Ms(-SlackMs)

\* `if delay_ms < -10:` of tick, the condition of the fell-behind warning
FellBehind(delay_ms) == delay_ms < Ms(-SlackMs)

\* `not delay_until_next` of loop is false exactly for these results
Truthy(r) == r # None /\ Val(r) # 0

\* TimePoint objects no variable and no event refers to are gone
Collect(o, sched) ==
    [id \in DOMAIN o |->
        IF id <= NV \/ \E i \in 1 .. Len(sched) : sched[i].delay = id
        THEN o[id] ELSE Time(0)]

M == [bpm |-> bpm, scheduler |-> scheduler, objs |-> objs, pos |-> pos,
      added |-> added, output |-> output, spawned |-> spawned,
      order |-> order, exc |-> FALSE]

Set(m) ==
    /\ bpm' = m.bpm
    /\ scheduler' = m.scheduler
    /\ objs' = Collect(m.objs, m.scheduler)
    /\ pos' = m.pos
    /\ added' = m.added
    /\ output' = m.output
    /\ spawned' = m.spawned
    /\ order' = m.order

InSeq(x, q) == \E i \in 1 .. Len(q) : q[i] = x

\* q without its entries equal to x
Without(q, x) == SelectSeq(q, LAMBDA y : y # x)

\* x stands before y in q
Before(q, x, y) ==
    \E i, j \in 1 .. Len(q) : i < j /\ q[i] = x /\ q[j] = y

MtaInit ==
    /\ scn \in 1 .. Len(Scenarios)
    /\ bpm = 60
    /\ scheduler = << >>
    /\ tm = None
    /\ objs = [id \in 1 .. NV + NT |->
                  IF id <= NV THEN Scenarios[scn].vars[id] ELSE Time(0)]
    /\ slept = 0
    /\ pos = [t \in Tasks |-> 0]
    /\ added = << >>
    /\ output = << >>
    /\ pc = "idle"
    /\ inLoop = FALSE
    /\ result = None
    /\ fired = << >>
    /\ spawned = {}
    /\ due = [t \in Tasks |-> None]
    /\ order = << >>
    /\ manual = FALSE
    /\ pre = [op |-> "other"]

\* The scheduler specification: no canvas, no generator outside the queue
Init ==
    /\ MtaInit
    /\ pd = None
    /\ gen = None
    /\ conv = None

\* The driver calls add(f) for a generator it has not added yet
Add(t) ==
    /\ pc = "idle"
    /\ t \in Sc.roots
    /\ ~InSeq(t, added)
    /\ Sc.inOrder => \A u \in Sc.roots : u < t => InSeq(u, added)
    /\ Set(add(M, t))
    /\ manual' = (manual \/ tm # None)
    /\ pre' = [op |-> "add", t |-> t, m |-> M, tm |-> tm]
    /\ UNCHANGED <<pd, gen, conv, scn, tm, slept, pc, inLoop, result, fired,
                   due>>

\* The driver assigns Mta.bpm
SetBpm(b) ==
    /\ pc = "idle"
    /\ b \in Sc.tempos \ {bpm}
    /\ bpm' = b
    /\ manual' = TRUE
    /\ pre' = [op |-> IF pre.op \in {"ret", "reret", "bpmret", "loopret", "retbpm"}
                      THEN "retbpm" ELSE "other"]
    /\ UNCHANGED <<pd, gen, conv, scn, scheduler, tm, objs, slept, pos, added,
                   output, pc, inLoop, result, fired, spawned, due, order>>

\* UntimedMta._sleep called by the driver: the clock advances
Sleep(d) ==
    /\ pc = "idle"
    /\ d \in Sc.sleeps
    /\ slept + Ms(d) <= Ms(Sc.horizon)
    /\ slept' = Float(slept + Ms(d))
    /\ manual' = TRUE
    /\ pre' = [op |-> "other"]
    /\ UNCHANGED <<pd, gen, conv, scn, bpm, scheduler, tm, objs, pos, added,
                   output, pc, inLoop, result, fired, spawned, due, order>>

\* A tick that elapses the events and forgets `self.tm = now`
TickEnterKeepsTm ==
    /\ tm' = IF tm = None THEN Some(slept) ELSE tm
    /\ objs' = IF tm = None
               THEN objs
               ELSE ElapseEvents(scheduler, 1, objs, bpm, Float(slept - Val(tm)))
    /\ pc' = "tick"
    /\ fired' = << >>
    /\ spawned' = {}
    /\ pre' = [op |-> IF pre.op \in {"ret", "reret", "bpmret"} THEN "retick"
                      ELSE IF pre.op = "retbpm" THEN "bpmtick"
                      ELSE "tick",
               scheduler |-> scheduler, objs |-> objs, result |-> result,
               ms |-> IF tm = None THEN 0 ELSE Float(slept - Val(tm))]
    /\ UNCHANGED <<pd, gen, conv, scn, bpm, scheduler, slept, pos, added,
                   output, result, due, order>>

\* tick up to its while loop: the clock is read and the events elapse
TickEnter ==
    /\ tm' = Some(slept)
    /\ objs' = IF tm = None
               THEN objs
               ELSE ElapseEvents(scheduler, 1, objs, bpm, Float(slept - Val(tm)))
    /\ pc' = "tick"
    /\ fired' = << >>
    /\ spawned' = {}
    /\ pre' = [op |-> IF pre.op \in {"ret", "reret", "bpmret"} THEN "retick"
                      ELSE IF pre.op = "retbpm" THEN "bpmtick"
                      ELSE "tick",
               scheduler |-> scheduler, objs |-> objs, result |-> result,
               ms |-> IF tm = None THEN 0 ELSE Float(slept - Val(tm))]
    /\ UNCHANGED <<pd, gen, conv, scn, bpm, scheduler, slept, pos, added,
                   output, result, due, order>>

\* The driver calls tick
Tick ==
    /\ pc = "idle"
    /\ TickEnter
    /\ inLoop' = FALSE
    /\ manual' = TRUE

\* The driver calls loop
Loop ==
    /\ pc = "idle"
    /\ pc' = "loop_tick"
    /\ inLoop' = TRUE
    /\ manual' = (manual \/ tm # None)
    /\ pre' = [op |-> "other"]
    /\ UNCHANGED <<pd, gen, conv, scn, bpm, scheduler, tm, objs, slept, pos,
                   added, output, result, fired, spawned, due, order>>

\* loop calls tick
LoopTick ==
    /\ pc = "loop_tick"
    /\ TickEnter
    /\ UNCHANGED <<inLoop, manual>>

\* The pending delay a generator is suspended on, when it is a Time it
\* constructed at the yield with a positive value
OwnTimeDelay(p, t) ==
    IF p >= 1 /\ p <= Len(Prog(t)) /\ Prog(t)[p].op = "yield"
       /\ Prog(t)[p].tp.kind = "Time" /\ Prog(t)[p].tp.v > 0
    THEN Some(Prog(t)[p].tp.v)
    ELSE None

\* One iteration of tick's while loop: pop, warn, _fire_event.  An exception
\* raised by the generator leaves tick, and loop, at once.
Fire ==
    /\ pc = "tick"
    /\ Ready(scheduler, objs, bpm)
    /\ Spins(scn) => Len(fired) < MaxSpins
    /\ \E p \in {heappop(scheduler, objs)} :
       \E m1 \in {fire_event([M EXCEPT !.scheduler = p.heap,
                                       !.order = Without(order, p.item.data)],
                              p.item)} :
       LET ev == p.item
           delay_ms == to_ms(objs[ev.delay], bpm)
           own == OwnTimeDelay(m1.pos[ev.data], ev.data)
       IN  /\ Set(m1)
           /\ fired' = Append(fired,
                 [t |-> ev.data, ms |-> delay_ms,
                  warn |-> FellBehind(delay_ms),
                  early |-> due[ev.data] # None /\ slept < Val(due[ev.data]),
                  behind |-> {p.heap[i].data : i \in
                      {j \in 1 .. Len(p.heap) :
                          to_ms(objs[p.heap[j].delay], bpm) < delay_ms}},
                  jumped |-> {p.heap[i].data : i \in
                      {j \in 1 .. Len(p.heap) :
                          /\ to_ms(objs[p.heap[j].delay], bpm) = delay_ms
                          /\ Before(order, p.heap[j].data, ev.data)}}])
           /\ due' = [due EXCEPT ![ev.data] =
                         IF own # None THEN Some(slept + Val(own)) ELSE None]
           /\ IF m1.exc
              THEN /\ pc' = "idle"
                   /\ inLoop' = FALSE
                   /\ pre' = [op |-> "raised", t |-> ev.data, heap |-> p.heap,
                              objs |-> objs]
              ELSE UNCHANGED <<pc, inLoop, pre>>
    /\ UNCHANGED <<pd, gen, conv, scn, tm, slept, result, manual>>

\* tick returns; loop then breaks or goes on to sleep
Return ==
    /\ pc = "tick"
    /\ ~Ready(scheduler, objs, bpm)
    /\ result' = IF scheduler # << >>
                 THEN Some(to_ms(objs[scheduler[1].delay], bpm))
                 ELSE None
    /\ pc' = IF inLoop /\ Truthy(result') THEN "loop_sleep" ELSE "idle"
    /\ inLoop' = (inLoop /\ Truthy(result'))
    /\ pre' = IF inLoop /\ ~Truthy(result') THEN [op |-> "loopret"]
              ELSE IF pre.op = "retick" THEN [pre EXCEPT !.op = "reret"]
              ELSE IF pre.op = "bpmtick" THEN [pre EXCEPT !.op = "bpmret"]
              ELSE [op |-> "ret"]
    /\ UNCHANGED <<pd, gen, conv, scn, bpm, scheduler, tm, objs, slept, pos,
                   added, output, fired, spawned, due, order, manual>>

\* loop calls _sleep with the delay tick returned
LoopSleep ==
    /\ pc = "loop_sleep"
    /\ Sc.endless => slept + Val(result) <= Ms(Sc.horizon)
    /\ slept' = Float(slept + Val(result))
    /\ pc' = "loop_tick"
    /\ pre' = [op |-> "slept"]
    /\ UNCHANGED <<pd, gen, conv, scn, bpm, scheduler, tm, objs, pos, added,
                   output, inLoop, result, fired, spawned, due, order,
                   manual>>

Next ==
    \/ \E t \in Tasks : Add(t)
    \/ \E b \in Tempos : SetBpm(b)
    \/ \E d \in 1 .. 10 : Sleep(d)
    \/ Tick
    \/ Loop
    \/ LoopTick
    \/ Fire
    \/ Return
    \/ LoopSleep

Spec == Init /\ [][Next]_vars

\* The steps of a tick or a loop that has started
Running == LoopTick \/ Fire \/ Return \/ LoopSleep

\* The driver and the generators run on one thread: a tick or loop that
\* has started keeps running.
FairSpec == Spec /\ WF_vars(Running)

\* A tick on its own: the scenarios of the tests, of the tempo changes and
\* of the endless generators; the while loop of a tick that has started
\* goes on to its next iteration or to the return.
TickScenarios == {1, 3, 6, 9, 10, 13}

TickInit == Init /\ scn \in TickScenarios

TickSpec == TickInit /\ [][Next]_vars /\ WF_vars(Fire \/ Return)

----------------------------------------------------------------------------
(* to_ms on its own: a TimePoint and a tempo are chosen, to_ms is applied  *)

\* The counts and millisecond values converted are the multiples of a half
\* up to MaxHalves halves
MaxHalves == 8

ConvTempos == {30, 60, 120, 240}

ConvInit ==
    /\ MtaInit /\ scn = 1
    /\ pd = None
    /\ gen = None
    /\ \E k \in 0 .. MaxHalves, b \in ConvTempos :
          \E tp \in {Beat(k * (Fixed \div 2)), Time(k * (Fixed \div 2))} :
             conv = [tp |-> tp, bpm |-> b, ms |-> None]

\* tp.to_ms(bpm)
ToMs ==
    /\ conv.ms = None
    /\ conv' = [conv EXCEPT !.ms = Some(to_ms(conv.tp, conv.bpm))]
    /\ UNCHANGED <<mtaVars, pd, gen>>

ConvNext == ToMs

ConvSpec == ConvInit /\ [][ConvNext]_vars

----------------------------------------------------------------------------
(* TimePoint.elapse on its own: a TimePoint is elapsed up to MaxElapses    *)
(* times by a quarter or a half of a second, at one tempo.                 *)

MaxElapses == 2

ElapseAmounts == {Ms(250), Ms(500)}

\* Tempos at which these values and their differences are floats
ElapseTempos == {120, 240}

ElapseInit ==
    /\ MtaInit /\ scn = 1
    /\ pd = None
    /\ gen = None
    /\ \E k \in 0 .. MaxHalves, b \in ElapseTempos :
          \E tp \in {Beat(k * (Fixed \div 2)), Time(k * (Fixed \div 2))} :
             conv = [tp |-> tp, bpm |-> b, start |-> tp, elapsed |-> << >>]

\* tp.elapse(bpm, ms)
Elapse(ms) ==
    /\ Len(conv.elapsed) < MaxElapses
    /\ conv' = [conv EXCEPT !.tp = elapse(conv.tp, conv.bpm, ms),
                            !.elapsed = Append(conv.elapsed, ms)]
    /\ UNCHANGED <<mtaVars, pd, gen>>

ElapseNext == \E ms \in ElapseAmounts : Elapse(ms)

ElapseSpec == ElapseInit /\ [][ElapseNext]_vars

----------------------------------------------------------------------------
(* measure / _fill_time on its own: a generator made by measure(beats)     *)
(* around a shard is iterated with next until it ends.  The shard is the   *)
(* sequence of TimePoints the wrapped generator yields.                    *)

\* The longest shard
MaxShard == 3

\* The delays a shard yields, and the measures filled
ShardDelays == {Beat(Fixed \div 2), Beat(Fixed), Time(Ms(100))}
Measures == {4 * Fixed, Fixed}

RECURSIVE Shards(_)
Shards(n) ==
    IF n = 0 THEN {<< >>}
    ELSE Shards(n - 1) \cup
         {Append(q, d) : q \in {r \in Shards(n - 1) : Len(r) = n - 1},
                         d \in ShardDelays}

\* measure(beats)(shard): the generator _fill_time(beats, shard), not started
measure(beats, shard) ==
    [beats |-> beats, shard |-> shard, i |-> 0, total |-> 0,
     yields |-> << >>, state |-> "suspended"]

\* A last yield that pays no regard to the total
paddingWhole(beats, total) == Beat(beats)

\* The last yield of _fill_time
padding(beats, total) == Beat(Float(beats - total))

\* next() on a _fill_time generator: `total += delay.count` raises
\* AttributeError for a delay without a count (a Time)
fill_time(g) ==
    IF g.i < Len(g.shard)
    THEN LET delay == g.shard[g.i + 1]
         IN  IF delay.kind = "Beat"
             THEN [g EXCEPT !.i = g.i + 1,
                            !.total = Float(g.total + delay.v),
                            !.yields = Append(g.yields, delay)]
             ELSE [g EXCEPT !.i = g.i + 1, !.state = "raised"]
    ELSE IF g.i = Len(g.shard)
    THEN [g EXCEPT !.i = g.i + 1,
                   !.yields = Append(g.yields, padding(g.beats, g.total))]
    ELSE [g EXCEPT !.state = "done"]

GenInit ==
    /\ MtaInit /\ scn = 1
    /\ pd = None
    /\ conv = None
    /\ \E beats \in Measures, shard \in Shards(MaxShard) :
          gen = measure(beats, shard)

\* The consumer calls next on the generator
GenNext ==
    /\ gen.state = "suspended"
    /\ gen' = fill_time(gen)
    /\ UNCHANGED <<mtaVars, pd, conv>>

GenSpec == GenInit /\ [][GenNext]_vars

----------------------------------------------------------------------------
(* pdctl: Box, Recv, Bang, Connection, Placer and Canvas.  The variable pd *)
(* holds one canvas: box (every Box object, by identity), boxes            *)
(* (Canvas.boxes), conns (the Connection objects, in creation order),      *)
(* next_box_id, interactive, sent (the commands passed to send_cmd),       *)
(* unique_name_count (the class attribute, per class that has its own),    *)
(* error (how the last call ended) and last (what the last render found).  *)

\* The boxes and connections made
MaxBoxes == 3
MaxConns == 2

\* The outlet and inlet indices patched
Ports == {0, 1}

\* The selectors passed to Recv; None is no argument
Selectors == {None, Some(""), Some("foo")}

\* The method resolution order of the classes that call gen_name
Mro(cls) ==
    IF cls = "Recv" THEN <<"Recv", "Obj", "Box">> ELSE <<"Bang", "Gui", "Box">>

CreationCommand(cls) == IF cls = "Bang" THEN "bng" ELSE "obj"

\* cls._unique_name_count, found along the classes of cls
RECURSIVE unique_name_count(_, _)
unique_name_count(counts, mro) ==
    IF counts[Head(mro)] # None
    THEN Val(counts[Head(mro)])
    ELSE unique_name_count(counts, Tail(mro))

\* A gen_name that does not count
gen_nameConstant(counts, cls, prefix) ==
    [counts |-> counts,
     name |-> <<"_", IF prefix # None THEN Val(prefix) ELSE CreationCommand(cls),
                "_", 0>>]

\* Box.gen_name: the new class attribute and the name '_%s_%d'
gen_name(counts, cls, prefix) ==
    LET n == unique_name_count(counts, Mro(cls)) + 1
    IN  [counts |-> [counts EXCEPT ![cls] = Some(n)],
         name |-> <<"_", IF prefix # None THEN Val(prefix) ELSE CreationCommand(cls),
                    "_", n>>]

\* `selector or ...`, `name or ...`: no argument and '' are both false
Falsy(arg) == arg = None \/ arg = Some("")

Connection(outlet, inlet) ==
    [outlet |-> outlet, inlet |-> inlet, rendered |-> FALSE]

\* The indices in pd.conns of the connections whose end e is at box b, port idx
AtPort(p, e, b, idx) ==
    SelectSeq([k \in 1 .. Len(p.conns) |-> k],
              LAMBDA k : p.conns[k][e].box = b /\ p.conns[k][e].idx = idx)

\* Box.outgoing: by outlet index, then in the order patched
outgoing(p, b) == AtPort(p, "outlet", b, 0) \o AtPort(p, "outlet", b, 1)

\* Box.children
children(p, b) ==
    [k \in 1 .. Len(outgoing(p, b)) |-> p.conns[outgoing(p, b)[k]].inlet.box]

\* Box.parents: by inlet index, then in the order patched
parents(p, b) ==
    LET cs == AtPort(p, "inlet", b, 0) \o AtPort(p, "inlet", b, 1)
    IN  [k \in 1 .. Len(cs) |-> p.conns[cs[k]].outlet.box]

\* Box.parent: the left-most parent, or None
parent(p, b) == IF parents(p, b) = << >> THEN None ELSE Some(parents(p, b)[1])

\* Box.is_placed: bool(self.x)
is_placed(box) == box.x # None /\ Val(box.x) # 0

\* Box._creation_commands and Gui._creation_commands
creation_commands(box) ==
    IF box.cls = "Bang"
    THEN << <<"bng", box.name>>,
            <<"motion", Val(box.x), Val(box.y), 0>>,
            <<"mouseup", Val(box.x), Val(box.y), 1, 0>>,
            <<"mouse", 4, 4, 1, 0>>,
            <<"mouseup", 4, 4, 1, 0>> >>
    ELSE << <<"obj", Val(box.x), Val(box.y)>> \o box.args >>

\* Placer.place on the placer st = [to_place, coords, children, left]:
\* the coordinates, or None when the parent has none yet
PlacerPlace(p, st, b) ==
    IF parent(p, b) = None
    THEN [st |-> [st EXCEPT !.left = st.left + 80],
          coords |-> Some(<<st.left + 80, 10>>)]
    ELSE LET pa == Val(parent(p, b))
         IN  IF st.coords[pa] = None
             THEN [st |-> st, coords |-> None]
             ELSE [st |-> [st EXCEPT !.children[pa] = @ + 1],
                   coords |-> Some(<<Val(st.coords[pa])[1] + 80 * st.children[pa],
                                     Val(st.coords[pa])[2] + 20>>)]

\* The while loop of Placer.place_all.  A box whose parent has no
\* coordinates goes back to the end of to_place; once every box of to_place
\* has gone back in a row nothing can change and the loop does not end (hang).
RECURSIVE place_all_loop(_, _, _)
place_all_loop(p, st, stalled) ==
    IF st.to_place = << >> THEN [placed |-> st.coords, hang |-> FALSE]
    ELSE IF stalled >= Len(st.to_place) THEN [placed |-> st.coords, hang |-> TRUE]
    ELSE LET b == Head(st.to_place)
             rest == Tail(st.to_place)
             r == PlacerPlace(p, st, b)
         IN  IF st.coords[b] # None
             THEN place_all_loop(p, [st EXCEPT !.to_place = rest], 0)
             ELSE IF r.coords = None
             THEN place_all_loop(p, [st EXCEPT !.to_place = Append(rest, b)],
                                 stalled + 1)
             ELSE place_all_loop(p, [r.st EXCEPT !.coords[b] = r.coords,
                                                 !.to_place = rest \o children(p, b)],
                                 0)

\* Placer().place_all(boxes)
place_all(p, bs) ==
    place_all_loop(p,
        [to_place |-> SelectSeq(bs, LAMBDA b : parent(p, b) = None),
         coords |-> [b \in 1 .. Len(p.box) |-> None],
         children |-> [b \in 1 .. Len(p.box) |-> 0],
         left |-> 10],
        0)

\* Canvas.send_cmd
send_cmd(p, cmd) == [p EXCEPT !.sent = Append(p.sent, cmd)]

RECURSIVE send_cmds(_, _)
send_cmds(p, cmds) ==
    IF cmds = << >> THEN p ELSE send_cmds(send_cmd(p, Head(cmds)), Tail(cmds))

\* Canvas._render_box with Box.place
render_box(p, b, coords) ==
    LET placed == [p.box[b] EXCEPT !.x = Some(coords[1]), !.y = Some(coords[2]),
                                   !.id = Some(p.next_box_id)]
    IN  send_cmds([p EXCEPT !.box[b] = placed, !.next_box_id = p.next_box_id + 1],
                  creation_commands(placed))

\* Canvas._maybe_render_conn for the connection p.conns[k]
maybe_render_conn(p, k) ==
    LET conn == p.conns[k]
    IN  IF conn.rendered THEN p
        ELSE send_cmd([p EXCEPT !.conns[k].rendered = TRUE],
                      <<"connect", p.box[conn.outlet.box].id, conn.outlet.idx,
                        p.box[conn.inlet.box].id, conn.inlet.idx>>)

\* The first loop of render; coords[box] raises KeyError for a box the
\* placer returned no coordinates for
RECURSIVE render_boxes(_, _, _)
render_boxes(p, bs, coords) ==
    IF bs = << >> THEN p
    ELSE IF coords[Head(bs)] = None THEN [p EXCEPT !.error = Some("KeyError")]
    ELSE render_boxes(render_box(p, Head(bs), Val(coords[Head(bs)])),
                      Tail(bs), coords)

\* The second loop of render, over the connections ks
RECURSIVE render_conns(_, _)
render_conns(p, ks) ==
    IF ks = << >> THEN p
    ELSE render_conns(maybe_render_conn(p, Head(ks)), Tail(ks))

\* The connections in the order the second loop of render visits them
RECURSIVE AllOutgoing(_, _)
AllOutgoing(p, bs) ==
    IF bs = << >> THEN << >>
    ELSE outgoing(p, Head(bs)) \o AllOutgoing(p, Tail(bs))

\* Canvas.render
render(p) ==
    LET boxes_to_place == SelectSeq(p.boxes, LAMBDA b : ~is_placed(p.box[b]))
        r == place_all(p, boxes_to_place)
        p1 == render_boxes(p, boxes_to_place, r.placed)
    IN  IF r.hang THEN [p EXCEPT !.error = Some("hang")]
        ELSE IF p1.error # None THEN p1
        ELSE [render_conns(p1, AllOutgoing(p1, p1.boxes)) EXCEPT
                 !.interactive = TRUE]

\* Canvas.add
CanvasAdd(p, b) ==
    LET p1 == [p EXCEPT !.boxes = Append(p.boxes, b)]
    IN  IF p.interactive THEN render_box(p1, b, <<10, 10>>) ELSE p1

PdInit ==
    /\ MtaInit /\ scn = 1
    /\ gen = None
    /\ conv = None
    /\ pd = [box |-> << >>, boxes |-> << >>, conns |-> << >>,
             next_box_id |-> 0, interactive |-> FALSE, sent |-> << >>,
             unique_name_count |->
                 [cls \in {"Box", "Obj", "Gui", "Recv", "Bang"} |->
                     IF cls = "Box" THEN Some(-1) ELSE None],
             error |-> None, last |-> None]

\* A call that does not return leaves nothing to do
Alive == pd.error # Some("hang")

NewBox(cls, args, name, arg) ==
    [cls |-> cls, args |-> args, name |-> name, arg |-> arg,
     x |-> None, y |-> None, id |-> None]

\* patch.Foo(): a generic Obj, named after its number
CreateObj ==
    /\ Alive /\ Len(pd.box) < MaxBoxes
    /\ pd' = CanvasAdd([pd EXCEPT
                 !.box = Append(pd.box,
                            NewBox("Obj", <<Len(pd.box) + 1>>, Len(pd.box) + 1, None)),
                 !.error = None, !.last = None],
              Len(pd.box) + 1)
    /\ UNCHANGED <<mtaVars, gen, conv>>

\* patch.Recv(selector) and patch.Recv()
CreateRecv(selector) ==
    /\ Alive /\ Len(pd.box) < MaxBoxes
    /\ LET g == gen_name(pd.unique_name_count, "Recv", Some("recv"))
           sel == IF Falsy(selector) THEN g.name ELSE Val(selector)
       IN  pd' = CanvasAdd([pd EXCEPT
                     !.unique_name_count =
                         IF Falsy(selector) THEN g.counts ELSE @,
                     !.box = Append(pd.box,
                                NewBox("Recv", <<"r", sel>>, sel, selector)),
                     !.error = None, !.last = None],
                  Len(pd.box) + 1)
    /\ UNCHANGED <<mtaVars, gen, conv>>

\* patch.Bang()
CreateBang ==
    /\ Alive /\ Len(pd.box) < MaxBoxes
    /\ LET g == gen_name(pd.unique_name_count, "Bang", None)
       IN  pd' = CanvasAdd([pd EXCEPT
                     !.unique_name_count = g.counts,
                     !.box = Append(pd.box,
                                NewBox("Bang", <<g.name>>, g.name, None)),
                     !.error = None, !.last = None],
                  Len(pd.box) + 1)
    /\ UNCHANGED <<mtaVars, gen, conv>>

\* Outlet(a, o).patch(Inlet(b, i)), through Box._patch
Patch(a, o, b, i) ==
    /\ Alive /\ Len(pd.conns) < MaxConns
    /\ a \in 1 .. Len(pd.box) /\ b \in 1 .. Len(pd.box)
    /\ pd' = [pd EXCEPT
                 !.conns = Append(pd.conns,
                              Connection([box |-> a, idx |-> o],
                                         [box |-> b, idx |-> i])),
                 !.error = None, !.last = None]
    /\ UNCHANGED <<mtaVars, gen, conv>>

\* patch.render()
Render ==
    /\ Alive
    /\ pd' = render([pd EXCEPT
                 !.error = None,
                 !.last = Some([unplaced |-> SelectSeq(pd.boxes,
                                     LAMBDA b : ~is_placed(pd.box[b])),
                                pending |-> SelectSeq([k \in 1 .. Len(pd.conns) |-> k],
                                     LAMBDA k : ~pd.conns[k].rendered),
                                sent |-> Len(pd.sent),
                                next_box_id |-> pd.next_box_id])])
    /\ UNCHANGED <<mtaVars, gen, conv>>

\* Boxes are created, patched and rendered
PdNext ==
    \/ CreateObj
    \/ CreateBang
    \/ \E a, b \in 1 .. MaxBoxes, o, i \in Ports : Patch(a, o, b, i)
    \/ Render

PdSpec == PdInit /\ [][PdNext]_vars

\* Boxes with and without generated names are created and rendered
NameNext ==
    \/ CreateObj
    \/ \E selector \in Selectors : CreateRecv(selector)
    \/ CreateBang
    \/ Render

NameSpec == PdInit /\ [][NameNext]_vars

\* The canvas is cleared at most MaxClears times
MaxClears == 1

\* patch.clear(): the list of boxes is emptied and the host is told to
\* clear the canvas; the counter of box ids and the boxes stay as they are
Clear ==
    /\ Alive
    /\ Cardinality({k \in 1 .. Len(pd.sent) : pd.sent[k] = <<"clear">>}) < MaxClears
    /\ pd' = send_cmd([pd EXCEPT !.boxes = << >>, !.error = None, !.last = None],
                      <<"clear">>)
    /\ UNCHANGED <<mtaVars, gen, conv>>

\* Boxes are created, patched, rendered and cleared
ClearNext ==
    \/ CreateObj
    \/ \E a, b \in 1 .. MaxBoxes, o, i \in Ports : Patch(a, o, b, i)
    \/ Render
    \/ Clear

ClearSpec == PdInit /\ [][ClearNext]_vars

----------------------------------------------------------------------------
(* Sanity of the fixed-point representation *)

ExactArithmetic ==
    /\ \A i \in 1 .. Len(scheduler) : \A b \in Tempos :
          objs[scheduler[i].delay].kind = "Beat"
             => (objs[scheduler[i].delay].v * 1000 * 60) % b = 0
    /\ (tm # None /\ \E i \in 1 .. Len(scheduler) :
                        objs[scheduler[i].delay].kind = "Beat")
          => \A b \in Tempos : ((slept - Val(tm)) * b) % (1000 * 60) = 0

----------------------------------------------------------------------------
(* Notions the claims share *)

\* A tick has just returned (to the driver or to loop)
JustReturned == pre.op \in {"ret", "reret", "bpmret", "loopret"}

\* loop has just returned
LoopReturned == pre.op = "loopret"

Started(t) == pos[t] > 0
Done(t) == pos[t] = Len(Prog(t)) + 1

RECURSIVE SeqMin(_)
SeqMin(q) ==
    IF Len(q) = 1 THEN q[1]
    ELSE LET r == SeqMin(Tail(q)) IN IF q[1] < r THEN q[1] ELSE r

\* The effective delays of the pending events at the current tempo
PendingMs == [i \in 1 .. Len(scheduler) |-> to_ms(objs[scheduler[i].delay], bpm)]

\* The effects of generator t, in program order
Labels(t) ==
    LET outs == SelectSeq(Prog(t), LAMBDA op : op.op = "out")
    IN  [i \in 1 .. Len(outs) |-> outs[i].s]

LabelSet(t) == {Labels(t)[i] : i \in 1 .. Len(Labels(t))}

----------------------------------------------------------------------------
(* Claims *)

\* C1: a generator that a task adds during a tick runs its first segment in
\* that same tick, after the adding step has yielded or ended; testSpawning's
\* run under loop gives a b aa bb c d cc dd.
C1_SpawnRunsInSameTick ==
    /\ JustReturned => \A t \in spawned : Started(t)
    /\ (scn = 3 /\ LoopReturned /\ ~manual /\ added = <<1, 2>>) =>
          output = <<"a", "b", "aa", "bb", "c", "d", "cc", "dd">>

\* C2: time points are copied when added to the scheduler, so a TimePoint
\* object yielded again counts down its own full delay: testReuseEvents
\* (add go1, add go2, loop) gives a A b B C c.
C2_ReusedTimePointsAreCopied ==
    (scn = 2 /\ LoopReturned /\ ~manual /\ added = <<1, 2>>) =>
        output = <<"a", "A", "b", "B", "C", "c">>

\* C3: of two pending resumptions with distinct effective delays that one
\* tick drains, the one with the smaller delay is resumed first.
C3_SmallerDelayFirst ==
    \A i, j \in 1 .. Len(fired) : i < j => fired[j].t \notin fired[i].behind

\* C4: pending resumptions with equal effective delays are resumed in the
\* order of their insertion; generators added before the first tick run
\* their first segments in add order.
C4_TiesInInsertionOrder ==
    \A i \in 1 .. Len(fired) : fired[i].jumped = {}

\* C5: a task that yields a Time of d > 0 ms, constructed at the yield, in a
\* tick with clock reading T is resumed by no tick with a clock reading below
\* T + d, and by the first tick with a clock reading of at least T + d.
C5_ResumedWhenDue ==
    /\ \A i \in 1 .. Len(fired) : ~fired[i].early
    /\ JustReturned => \A t \in Tasks : due[t] # None => Val(due[t]) > Val(tm)

\* C6: a tick called again with no clock time elapsed since the previous
\* tick resumes no task, leaves the queue and every pending delay as they
\* were, and returns what the previous tick returned.
C6_TickIdempotent ==
    pre.op = "reret" =>
        /\ fired = << >>
        /\ scheduler = pre.scheduler
        /\ objs = pre.objs
        /\ result = pre.result

C6_Witness ==
    pre.op = "reret" /\ scheduler # << >> /\ result # None /\ slept > 0

\* C7: tick returns None when the queue is empty and else the minimum of
\* to_ms(current tempo) over all pending resumptions.
C7_TickReturnsMinimum ==
    JustReturned =>
        result = IF scheduler = << >> THEN None ELSE Some(SeqMin(PendingMs))

\* C10: add enqueues one event with a new Time(0) for the generator, runs
\* nothing and changes nothing else; the generator's first segment runs in
\* the very next tick.
C10_AddOnlyEnqueues ==
    /\ pre.op = "add" =>
          /\ \E i \in 1 .. Len(scheduler) :
                /\ scheduler[i].data = pre.t
                /\ objs[scheduler[i].delay] = Time(0)
                /\ \A k \in 1 .. Len(pre.m.scheduler) : \E j \in 1 .. Len(scheduler) :
                      /\ j # i
                      /\ scheduler[j] = pre.m.scheduler[k]
                      /\ objs[scheduler[j].delay] = pre.m.objs[scheduler[j].delay]
          /\ Len(scheduler) = Len(pre.m.scheduler) + 1
          /\ output = pre.m.output /\ pos = pre.m.pos
          /\ bpm = pre.m.bpm /\ tm = pre.tm
    /\ JustReturned => \A i \in 1 .. Len(added) : Started(added[i])

\* C11: a generator's first segment, up to its first yield, runs inside the
\* call of add that registers it, not in a later tick.
C11_FirstSegmentRunsInAdd ==
    pre.op = "add" => Started(pre.t)

\* C12: after a tempo change a pending Beat delay of c beats is priced at
\* c * 60000 / bpm from the next tick on, and a pending Time delay ends at the
\* clock reading it would have ended at: when a tick returns, no generator is
\* left suspended on a Beat whose price has run out or on a Time whose clock
\* reading has come.
C12_LiveTempoChange ==
    JustReturned =>
        \A i \in 1 .. Len(scheduler) :
            LET t == scheduler[i].data
                tp == objs[scheduler[i].delay]
            IN  scheduler[i].delay = OwnObj(t) =>
                  /\ tp.kind = "Beat" => beats_to_ms(bpm, tp.v) > 0
                  /\ (tp.kind = "Time" /\ due[t] # None) => Val(due[t]) > Val(tm)

\* C20: when a tick returns, every event left in the queue has a delay of
\* more than 0 ms at the current tempo.
C20_CompleteDrain ==
    JustReturned => \A i \in 1 .. Len(PendingMs) : PendingMs[i] > 0

\* C17: an exception raised by a generator leaves tick and loop; the
\* generator's event has been popped and is not queued again, every other
\* pending event is still queued with its delay, and a later tick goes on to
\* resume the remaining generators.
C17_FaultPropagates ==
    /\ pre.op = "raised" =>
          /\ pc = "idle" /\ ~inLoop
          /\ \A i \in 1 .. Len(scheduler) : scheduler[i].data # pre.t
          /\ \A k \in 1 .. Len(pre.heap) : \E i \in 1 .. Len(scheduler) :
                /\ scheduler[i] = pre.heap[k]
                /\ objs[scheduler[i].delay] = pre.objs[scheduler[i].delay]
    /\ (scn = 9 /\ Done(1) /\ JustReturned) =>
          \A i \in 1 .. Len(scheduler) :
              /\ scheduler[i].data # 1
              /\ to_ms(objs[scheduler[i].delay], bpm) > 0

C17_Witness ==
    scn = 9 /\ Done(1) /\ Done(2) /\ JustReturned /\ added = <<1, 2>>

\* C16: a forever generator yields the delays of its shard again and again,
\* in order, and never ends: once added, the queue is never empty, no tick
\* returns None and loop does not return.
C16_ForeverNeverEnds ==
    (scn = 10 /\ added # << >>) =>
        /\ \A i \in 1 .. Len(output) :
              output[i] = IF i % 2 = 1 THEN "x" ELSE "y"
        /\ Len(output) = 0 <=> ~Started(1)
        /\ ~Done(1)
        /\ pc # "tick" => scheduler # << >>
        /\ JustReturned => result # None
        /\ ~LoopReturned

C16_Witness ==
    scn = 10 /\ inLoop /\ Len(output) >= 4

\* C13: Beat(c).to_ms(t) is c * 60000 / t (1 beat is 500 ms at 120 and
\* 1000 ms at 60, 4 beats are 2000 and 4000 ms, half a beat is 250 and
\* 500 ms), and Time(v).to_ms(t) is v at every tempo.
C13_BeatConversion ==
    conv.ms # None =>
        /\ conv.tp.kind = "Beat" =>
              Val(conv.ms) * conv.bpm = conv.tp.v * 60000
        /\ conv.tp.kind = "Time" => Val(conv.ms) = conv.tp.v
        /\ (conv.tp = Beat(Fixed) /\ conv.bpm = 120) => conv.ms = Some(Ms(500))
        /\ (conv.tp = Beat(Fixed) /\ conv.bpm = 60) => conv.ms = Some(Ms(1000))
        /\ (conv.tp = Beat(4 * Fixed) /\ conv.bpm = 120) => conv.ms = Some(Ms(2000))
        /\ (conv.tp = Beat(4 * Fixed) /\ conv.bpm = 60) => conv.ms = Some(Ms(4000))
        /\ (conv.tp = Beat(Fixed \div 2) /\ conv.bpm = 120) => conv.ms = Some(Ms(250))
        /\ (conv.tp = Beat(Fixed \div 2) /\ conv.bpm = 60) => conv.ms = Some(Ms(500))

C13_Witness ==
    conv.tp = Beat(Fixed \div 2) /\ conv.bpm = 120 /\ conv.ms = Some(Ms(250))

\* The sum of the counts of the Beat delays of a shard
RECURSIVE BeatSum(_)
BeatSum(q) ==
    IF q = << >> THEN 0
    ELSE (IF q[1].kind = "Beat" THEN q[1].v ELSE 0) + BeatSum(Tail(q))

AllBeats(q) == \A k \in 1 .. Len(q) : q[k].kind = "Beat"

IsPrefix(q, r) == Len(q) <= Len(r) /\ q = SubSeq(r, 1, Len(q))

\* What the claims say a measure generator yields: the delays of the shard,
\* then one Beat filling the measure
Filled(g) == Append(g.shard, Beat(g.beats - BeatSum(g.shard)))

C15_TimePassesThrough ==
    ~AllBeats(gen.shard) =>
        /\ gen.state # "raised"
        /\ IsPrefix(gen.yields, Filled(gen))
        /\ gen.state = "done" => gen.yields = Filled(gen)

\* The creation commands of the boxes bs, box after box
RECURSIVE Creations(_, _)
Creations(p, bs) ==
    IF bs = << >> THEN << >>
    ELSE creation_commands(p.box[Head(bs)]) \o Creations(p, Tail(bs))

\* The connect command of a connection
ConnectOf(p, conn) ==
    <<"connect", p.box[conn.outlet.box].id, conn.outlet.idx,
      p.box[conn.inlet.box].id, conn.inlet.idx>>

\* C18: render sends the creation commands of the boxes not placed yet in
\* the order they were added, numbering them from the next free id on, and
\* after all of them one connect command per connection not sent yet, each
\* naming the ids and port indices of its two boxes, both created by then.
C18_RenderOrder ==
    pd.last # None =>
        LET l == Val(pd.last)
            new == SubSeq(pd.sent, l.sent + 1, Len(pd.sent))
            made == Creations(pd, l.unplaced)
            rest == SubSeq(new, Len(made) + 1, Len(new))
        IN  /\ pd.error = None
            /\ \A k \in 1 .. Len(l.unplaced) :
                  pd.box[l.unplaced[k]].id = Some(l.next_box_id + k - 1)
            /\ IsPrefix(made, new)
            /\ Len(rest) = Len(l.pending)
            /\ \A k \in 1 .. Len(l.pending) : \E j \in 1 .. Len(rest) :
                  rest[j] = ConnectOf(pd, pd.conns[l.pending[k]])
            /\ \A j \in 1 .. Len(rest) :
                  /\ rest[j][1] = "connect"
                  /\ \E a, c \in 1 .. Len(pd.box) :
                        /\ pd.box[a].id # None /\ rest[j][2] = pd.box[a].id
                        /\ pd.box[c].id # None /\ rest[j][4] = pd.box[c].id

\* The Recv boxes made without a selector that counts, in creation order
Unnamed == SelectSeq(pd.box, LAMBDA box : box.cls = "Recv" /\ Falsy(box.arg))

Refs(sched, id) == Cardinality({i \in 1 .. Len(sched) : sched[i].delay = id})

\* The elapse pass of a tick has just run
Elapsed ==
    pc = "tick" /\ fired = << >> /\ pre.op \in {"tick", "retick", "bpmtick"}

RECURSIVE Sum(_)
Sum(q) == IF q = << >> THEN 0 ELSE q[1] + Sum(Tail(q))

\* C22: elapse(bpm, e) lowers a Time by e and a Beat by e * bpm / 60000
\* beats, so that to_ms afterwards is to_ms before minus e; successive
\* elapses add up; the value is not held at zero.
C22_ElapseArithmetic ==
    LET e == Sum(conv.elapsed)
    IN  /\ conv.tp.kind = conv.start.kind
        /\ conv.tp.kind = "Time" => conv.tp.v = conv.start.v - e
        /\ conv.tp.kind = "Beat" =>
               conv.tp.v * (1000 * 60) = conv.start.v * (1000 * 60) - e * conv.bpm
        /\ to_ms(conv.tp, conv.bpm) = to_ms(conv.start, conv.bpm) - e
        /\ conv.tp = elapse(conv.start, conv.bpm, e)

\* Two elapses took a Beat below zero
C22_Witness ==
    /\ Len(conv.elapsed) = 2
    /\ conv.elapsed[1] # conv.elapsed[2]
    /\ conv.tp.kind = "Beat"
    /\ conv.start.v > 0
    /\ conv.tp.v < 0
    /\ to_ms(conv.tp, conv.bpm) < 0

\* The generator t is suspended on a delay it yielded with a value of zero
\* or less
YieldedNonPositive(t) ==
    /\ pos[t] >= 1 /\ pos[t] <= Len(Prog(t))
    /\ Prog(t)[pos[t]].op = "yield"
    /\ Prog(t)[pos[t]].tp.v <= 0

\* C23: a generator that yields a delay of zero or less is resumed again
\* with no clock advance, in the same tick or in the very next one: a tick
\* that returns leaves no such generator pending unless it yielded that
\* delay during this tick.
C23_NonPositiveDelayIsReady ==
    JustReturned =>
        \A i \in 1 .. Len(scheduler) :
            YieldedNonPositive(scheduler[i].data) =>
                \E k \in 1 .. Len(fired) : fired[k].t = scheduler[i].data

\* The number of events of the scheduler that resume generator t
Pending(t) == Cardinality({i \in 1 .. Len(scheduler) : scheduler[i].data = t})

\* C24: the fell-behind warning is given for an event popped at less than
\* -10 ms and not for one popped at -10 ms or more; with or without the
\* warning the popped generator is resumed and, unless it ended, scheduled
\* once, and the tick returns the delay of the root.
C24_FellBehindWarning ==
    /\ \A i \in 1 .. Len(fired) :
          /\ fired[i].warn <=> fired[i].ms < Ms(-10)
          /\ Started(fired[i].t)
    /\ (pc = "tick" /\ fired # << >>) =>
          LET t == fired[Len(fired)].t
          IN  \/ Done(t) /\ Pending(t) = 0
              \/ ~Done(t) /\ Pending(t) = 1
    /\ (JustReturned /\ scheduler # << >>) =>
          result = Some(to_ms(objs[scheduler[1].delay], bpm))

\* An event was popped more than 10 ms late, with the warning; its
\* generator ran on and is scheduled again
C24_Witness ==
    /\ pc = "tick"
    /\ fired # << >>
    /\ fired[Len(fired)].warn
    /\ fired[Len(fired)].ms < Ms(-10)
    /\ Pending(fired[Len(fired)].t) = 1
    /\ Len(output) > 2

\* C25: every generator has at most one event in the scheduler; a
\* generator that was resumed and yielded a delay has exactly one, with the
\* object it yielded; a generator that has ended has none, and is not
\* resumed by any later tick; a tick on an empty scheduler resumes nothing
\* and returns None.
C25_EventLifecycle ==
    /\ \A t \in Tasks :
          /\ Pending(t) <= 1
          /\ Done(t) => Pending(t) = 0
          /\ ~InSeq(t, added) => Pending(t) = 0 /\ ~Started(t)
    /\ \A i \in 1 .. Len(fired) : InSeq(fired[i].t, added)
    /\ (pc = "tick" /\ fired # << >> /\ ~Done(fired[Len(fired)].t)) =>
          LET t == fired[Len(fired)].t
              op == Prog(t)[pos[t]]
          IN  \E i \in 1 .. Len(scheduler) :
                 /\ scheduler[i].data = t
                 /\ op.op \in {"yield", "yieldvar"}
                 /\ op.op = "yield" =>
                       scheduler[i].delay = OwnObj(t) /\ objs[OwnObj(t)] = op.tp
                 /\ op.op = "yieldvar" => scheduler[i].delay = op.var
    /\ (pre.op = "reret" /\ pre.scheduler = << >>) =>
          fired = << >> /\ result = None /\ scheduler = << >>

\* A tick on the scheduler that the end of the last generator has emptied
C25_Witness ==
    /\ pre.op = "reret"
    /\ pre.scheduler = << >>
    /\ Len(added) >= 2
    /\ \A t \in Tasks : InSeq(t, added) => Done(t)

CreationsIn(cmds) == SelectSeq(cmds, LAMBDA cmd : cmd[1] \in {"obj", "bng"})

\* The commands sent since the canvas was last cleared
RECURSIVE SinceClear(_)
SinceClear(cmds) ==
    IF \E k \in 1 .. Len(cmds) : cmds[k] = <<"clear">>
    THEN SinceClear(Tail(cmds))
    ELSE cmds

\* The creation command of box b: the one that carries its name
CreatesBox(cmd, b) ==
    /\ cmd[1] \in {"obj", "bng"}
    /\ cmd[Len(cmd)] = pd.box[b].name

\* C27: the id of a box is the 0-based position of its creation command
\* among the creation commands sent since the canvas was last cleared.
C27_BoxIdsAreHostIds ==
    LET made == CreationsIn(SinceClear(pd.sent))
    IN  \A k \in 1 .. Len(made) : \A b \in 1 .. Len(pd.box) :
           CreatesBox(made[k], b) => pd.box[b].id = Some(k - 1)

\* C28: whether a pending event is ready does not depend on the (positive)
\* tempo, and a tick that follows a tick with nothing but tempo changes in
\* between resumes no generator and leaves the scheduler as it was.
C28_ReadinessIsTempoIndependent ==
    /\ \A i \in 1 .. Len(scheduler) : \A b \in Tempos \cup ConvTempos :
          (to_ms(objs[scheduler[i].delay], b) <= 0)
             <=> (to_ms(objs[scheduler[i].delay], bpm) <= 0)
    /\ pre.op = "bpmret" =>
          /\ fired = << >>
          /\ scheduler = pre.scheduler
          /\ objs = pre.objs

\* A tick after a tempo change alone returned another delay for the same
\* root, a Beat, and resumed nothing
C28_Witness ==
    /\ pre.op = "bpmret"
    /\ fired = << >>
    /\ scheduler # << >>
    /\ objs[scheduler[1].delay].kind = "Beat"
    /\ Len(scheduler) = 2
    /\ result # pre.result

\* The scenarios in which generators yield the same TimePoint object
SharedObjects == {n \in 1 .. Len(Scenarios) :
                    \E t \in 1 .. Len(Scenarios[n].progs) :
                       \E k \in 1 .. Len(Scenarios[n].progs[t]) :
                          Scenarios[n].progs[t][k].op = "yieldvar"}

C30_TickTermination ==
    /\ (~Spins(scn) /\ pc = "tick") ~> pc # "tick"
    /\ []((Spins(scn) /\ \E t \in Tasks : Started(t) /\ Prog(t)[Len(Prog(t))] = Restart)
            => /\ pc = "tick"
               /\ Ready(scheduler, objs, bpm)
               /\ tm = Some(slept))

\* The tick has resumed the generator that yields Time(0) MaxSpins times
\* while another generator waits for a later time
C30_Witness ==
    /\ Spins(scn)
    /\ pc = "tick"
    /\ Len(fired) = MaxSpins
    /\ \A i \in 2 .. Len(fired) : fired[i].t = fired[1].t /\ fired[i].ms = 0
    /\ \E i \in 1 .. Len(scheduler) :
          to_ms(objs[scheduler[i].delay], bpm) > 0

\* C8: loop alternates tick and sleep: it returns exactly when a tick
\* returned None, and else sleeps for exactly the returned delay before the
\* next tick; a tick result other than None is strictly positive, so loop
\* never returns while a resumption is pending.
C8_LoopProtocol ==
    /\ (JustReturned /\ result # None) => Val(result) > 0
    /\ LoopReturned => result = None /\ scheduler = << >> /\ pc = "idle"
    /\ (pre.op = "ret" /\ inLoop) => result # None /\ pc = "loop_sleep"
    /\ pc = "loop_sleep" => inLoop /\ scheduler # << >>
    /\ (pc = "loop_tick" /\ pre.op = "slept") =>
          slept = Float(Val(tm) + Val(result))

C8_Witness ==
    pc = "loop_tick" /\ pre.op = "slept" /\ scheduler # << >> /\ Len(added) >= 2

\* Every generator passed to add has run to its end, each effect once and
\* in program order
AllRun ==
    \A i \in 1 .. Len(added) :
        /\ Done(added[i])
        /\ SelectSeq(output, LAMBDA x : x \in LabelSet(added[i])) = Labels(added[i])

====
